---- MODULE Spec2Model ----
(***************************************************************************)
(* Backup / restore / validation engine of the TaxiCo backend.             *)
(*                                                                         *)
(* The engine snapshots the collections of the primary store (MongoDB)     *)
(* into one local directory per backup id plus remote objects (GCS), and   *)
(* restores, validates and deletes those snapshots.                        *)
(*                                                                         *)
(* Documents are abstracted to their _id and to whether their fields still *)
(* carry native BSON types (ObjectId, Date) or the plain strings that      *)
(* JSON.stringify turns them into.  The order of documents inside a        *)
(* collection or a snapshot file is abstracted away: both are sets.        *)
(*                                                                         *)
(* Under Spec the requests (createBackup, restore, validate, delete) are   *)
(* served one at a time, and the application writes to the store between   *)
(* them; inside one createBackup run the collections proceed concurrently. *)
(*                                                                         *)
(* Under SchedSpec the BackupScheduler is followed: its start, stop and    *)
(* updateConfig calls, the fires of its timer and the manual triggers,     *)
(* which may overlap, and the retention prune that ends every fire.        *)
(*                                                                         *)
(* Under RaceSpec one createBackup call and one restore call are made      *)
(* while the other may be in progress, and their steps interleave.         *)
(***************************************************************************)
EXTENDS Integers, Sequences, FiniteSets, TLC

\* ------------------------------------------------------------------ bounds
\* Number of distinct seconds of the wall clock, hence of backup ids.
MaxTime == 2
\* Number of distinct document ids of the primary store.
MaxDocs == 1
\* Longest explicitly requested list of collection names.
MaxReq == 1
\* Number of snapshot files that can be damaged on disk at the same time.
MaxCorrupt == 1
\* Number of collections (a prefix of COLLECTIONS) the application writes to
\* and that explicit requests name.
MaxPopulated == 1
\* Number of createBackup calls.
MaxRuns == 1
\* Number of restore requests.
MaxRestores == 1
\* Number of I/O operations (disk, remote storage, database) that fail.
MaxFaults == 1
\* Last tick of the scheduler's clock.
MaxClock == 4
\* Ticks that have passed, and may have left a backup, before the scheduler
\* is constructed.
Past == 1
\* Number of runs (fires of the timer and manual triggers).
MaxFires == 2
\* Number of timers cron.schedule creates.
MaxTimers == 2
\* Number of calls of start, stop and updateConfig.
MaxCalls == 2
\* Number of deleteBackup calls of the scheduler that fail.
MaxDeleteFaults == 1
\* Largest retention.days, in ticks.
MaxDays == 1
\* Largest retention.maxBackups.
MaxKeep == 1

\* --------------------------------------------------------- program constants
COLLECTIONS == <<"Cab", "Customer", "Driver", "Ride">>

Names == {COLLECTIONS[i] : i \in 1..Len(COLLECTIONS)}

Ids == 1..MaxTime

\* A document: its _id and whether its fields carry native BSON types.
Docs == [oid : 1..MaxDocs, bson : BOOLEAN]

\* Documents as the application (mongoose) creates them.
NativeDocs == {d \in Docs : d.bson}

\* The collections the application writes to.
Populated == {COLLECTIONS[i] : i \in 1..MaxPopulated}

\* Requested lists: every list of at most MaxReq names, and the default
\* argument COLLECTIONS.
ReqLists == UNION {[1..n -> Populated] : n \in 0..MaxReq} \cup {COLLECTIONS}

\* ------------------------------------------------------------- file contents
NoFile == [kind |-> "none", docs |-> {}]

ArrayFile(ds) == [kind |-> "array", docs |-> ds]

\* Damaged contents: a JSON object, the JSON value null, unparsable text.
BadKinds == {"object", "null", "garbage"}

NoMeta == [id |-> 0, date |-> 0, collections |-> <<>>, size |-> 0,
           status |-> "none", errors |-> <<>>]

\* The entry of metadata.errors that the outer catch of createBackup appends.
\* An entry '<name>: <message>' of one collection is abstracted to <name>.
SetupError == "setup"

\* JSON.stringify of one document: ObjectId and Date become strings.
ToJSON(d) == [d EXCEPT !.bson = FALSE]

\* JSON.stringify(data, null, 2) of the array find({}).toArray() returned.
Stringify(data) == ArrayFile({ToJSON(d) : d \in data})

\* stats.size of a written snapshot file, in abstract units.
FileSize(content) == 2 + Cardinality(content.docs)

\* Array.isArray(JSON.parse(text)).
IsArray(content) == content.kind = "array"

\* JSON.parse(text) throws.
ParseThrows(content) == content.kind = "garbage"

\* now: the wall clock, in seconds.  db: the primary store.  dirs, files,
\* metas: the local backup directories, their snapshot files and metadata.json.
\* rfiles, rmetas: the remote objects.  bk, rs, vl: the createBackup run, the
\* restore and the validation in progress.  snap: for every snapshot file, the
\* documents find() had returned when it was written (history).  runs,
\* restores, faults: how many calls and failures happened so far.
VARIABLES now, db, dirs, files, metas, rfiles, rmetas, bk, rs, vl, snap,
          runs, restores, faults

\* The scheduler and what it works on.  clock: the wall clock the scheduler's
\* runs read.  disk: the entries of the backup directory.  config, task: the
\* fields of the BackupScheduler.  timers: the tasks cron.schedule has
\* returned.  fires: the runs the scheduler has begun (history and progress).
\* call: the last call of start, stop or updateConfig and how it ended
\* (history).  calls: how many of these calls happened so far.
VARIABLES clock, disk, config, task, timers, fires, call, calls

sched == <<clock, disk, config, task, timers, fires, call, calls>>

engine == <<now, db, dirs, files, metas, rfiles, rmetas, bk, rs, vl, snap,
            runs, restores, faults>>

vars == <<now, db, dirs, files, metas, rfiles, rmetas, bk, rs, vl, snap,
          runs, restores, faults, sched>>

storage == <<dirs, files, metas, rfiles, rmetas>>

budgets == <<snap, runs, restores, faults>>

\* ------------------------------------------------------------ process states
BkIdle == [pc |-> "idle", id |-> 0, req |-> <<>>, stage |-> <<>>,
           data |-> <<>>, meta |-> NoMeta, cata |-> "none"]

Idle == bk.pc = "idle" /\ rs.pc = "idle" /\ vl.pc = "idle"

\* An awaited I/O operation either succeeds or throws.
Outcome(ok) ==
    /\ ok \/ faults < MaxFaults
    /\ faults' = IF ok THEN faults ELSE faults + 1

\* --------------------------------------------------------------- environment
\* The wall clock reaches the next second.  Only createBackup reads the
\* clock, so its progress is followed while a call can still be made.
Tick ==
    /\ Idle
    /\ now < MaxTime
    /\ runs < MaxRuns
    /\ now' = now + 1
    /\ UNCHANGED <<db, storage, bk, rs, vl, budgets>>
    /\ UNCHANGED sched

\* The application creates a document in a collection.
StoreInsert(c, d) ==
    /\ Idle
    /\ d \notin db[c]
    /\ db' = [db EXCEPT ![c] = @ \cup {d}]
    /\ UNCHANGED <<now, storage, bk, rs, vl, budgets>>
    /\ UNCHANGED sched

\* A collection of the primary store is emptied.
StoreEmpty(c) ==
    /\ Idle
    /\ db[c] # {}
    /\ db' = [db EXCEPT ![c] = {}]
    /\ UNCHANGED <<now, storage, bk, rs, vl, budgets>>
    /\ UNCHANGED sched

CorruptCount ==
    Cardinality({p \in Ids \X Names : files[p[1]][p[2]].kind \in BadKinds})

\* A snapshot file on disk is damaged.
CorruptFile(b, c, k) ==
    /\ Idle
    /\ files[b][c].kind = "array"
    /\ CorruptCount < MaxCorrupt
    /\ files' = [files EXCEPT ![b][c] = [kind |-> k, docs |-> {}]]
    /\ UNCHANGED <<now, db, dirs, metas, rfiles, rmetas, bk, rs, vl, budgets>>
    /\ UNCHANGED sched

\* -------------------------------------------------------------- createBackup
\* const backupId = format(new Date(), DATE_FORMAT) and the fresh metadata.
NewMetadata(t) == [id |-> t, date |-> t, collections |-> <<>>, size |-> 0,
                   status |-> "completed", errors |-> <<>>]

\* The names of req at the positions whose pipeline is in stage st.  The
\* pushes onto metadata.collections and metadata.errors happen in completion
\* order; the model keeps both in request order.
RECURSIVE InStage(_, _, _)
InStage(req, stage, st) ==
    IF req = <<>> THEN <<>>
    ELSE LET rest == InStage(Tail(req), Tail(stage), st)
         IN IF Head(stage) = st THEN <<Head(req)>> \o rest ELSE rest

\* Mutant: the outer catch appends the error but leaves the status alone.
CatastropheKeepsStatus(cause) ==
    [bk EXCEPT !.pc = "done", !.cata = cause,
               !.meta.errors = Append(@, SetupError)]

\* The outer catch: status is forced to failed and the error appended.
Catastrophe(cause) ==
    [bk EXCEPT !.pc = "done", !.cata = cause,
               !.meta.status = "failed",
               !.meta.errors = Append(@, SetupError)]

\* Mutant: no inner catch, the failure of one collection reaches the outer one.
PipeFailAborts(i) == Catastrophe("collection")

\* The inner catch of one collection: '<name>: <message>' is pushed.
PipeFail(i) ==
    LET st == [bk.stage EXCEPT ![i] = "fail"]
    IN [bk EXCEPT !.stage = st, !.meta.errors = InStage(bk.req, st, "fail")]

\* metadata.collections.push(collectionName) and the success result.
PipeOk(i) ==
    LET st == [bk.stage EXCEPT ![i] = "ok"]
    IN [bk EXCEPT !.stage = st, !.meta.collections = InStage(bk.req, st, "ok")]

\* results.filter(r => !r.success).length
FailedCount(stage) == Cardinality({i \in DOMAIN stage : stage[i] = "fail"})

\* Mutant: a run is failed or it is not, partial is never set.
UpdateStatusNoPartial(meta, stage, req) ==
    IF FailedCount(stage) = Len(req) THEN [meta EXCEPT !.status = "failed"]
    ELSE meta

\* Update status based on results.
UpdateStatus(meta, stage, req) ==
    IF FailedCount(stage) = Len(req) THEN [meta EXCEPT !.status = "failed"]
    ELSE IF FailedCount(stage) > 0 THEN [meta EXCEPT !.status = "partial"]
    ELSE meta

\* createBackup(collections) is called: id and metadata are built.
CreateBackupCall(req) ==
    /\ Idle
    /\ runs < MaxRuns
    /\ runs' = runs + 1
    /\ bk' = [pc |-> "mkdir", id |-> now, req |-> req,
              stage |-> [i \in 1..Len(req) |-> "find"],
              data |-> [i \in 1..Len(req) |-> {}],
              meta |-> NewMetadata(now), cata |-> "none"]
    /\ UNCHANGED <<now, db, storage, rs, vl, snap, restores, faults>>
    /\ UNCHANGED sched

\* await fs.mkdir(backupDirPath, { recursive: true }).
BackupMkdir(ok) ==
    /\ bk.pc = "mkdir"
    /\ Outcome(ok)
    /\ IF ok
       THEN /\ dirs' = [dirs EXCEPT ![bk.id] = TRUE]
            /\ bk' = [bk EXCEPT !.pc = "pipes"]
       ELSE /\ bk' = Catastrophe("mkdir")
            /\ UNCHANGED dirs
    /\ UNCHANGED <<now, db, files, metas, rfiles, rmetas, rs, vl, snap, runs, restores>>
    /\ UNCHANGED sched

\* Mutant: find waits while a restore is between its delete and its insert.
PipeFindLocked(i, ok) ==
    /\ bk.pc = "pipes"
    /\ i \in DOMAIN bk.stage
    /\ bk.stage[i] = "find"
    /\ rs.pc # "insert"
    /\ Outcome(ok)
    /\ bk' = IF ok
             THEN [bk EXCEPT !.stage[i] = "write", !.data[i] = db[bk.req[i]]]
             ELSE PipeFail(i)
    /\ UNCHANGED <<now, db, storage, rs, vl, snap, runs, restores>>
    /\ UNCHANGED sched

\* await collection.find({}).toArray() of the i-th requested collection.
PipeFind(i, ok) ==
    /\ bk.pc = "pipes"
    /\ i \in DOMAIN bk.stage
    /\ bk.stage[i] = "find"
    /\ Outcome(ok)
    /\ bk' = IF ok
             THEN [bk EXCEPT !.stage[i] = "write", !.data[i] = db[bk.req[i]]]
             ELSE PipeFail(i)
    /\ UNCHANGED <<now, db, storage, rs, vl, snap, runs, restores>>
    /\ UNCHANGED sched

\* await fs.writeFile(filePath, jsonData); await fs.stat(filePath);
\* metadata.size += stats.size.
PipeWrite(i, ok) ==
    /\ bk.pc = "pipes"
    /\ i \in DOMAIN bk.stage
    /\ bk.stage[i] = "write"
    /\ Outcome(ok)
    /\ IF ok /\ dirs[bk.id]
       THEN /\ files' = [files EXCEPT ![bk.id][bk.req[i]] = Stringify(bk.data[i])]
            /\ snap' = [snap EXCEPT ![bk.id][bk.req[i]] = bk.data[i]]
            /\ bk' = [bk EXCEPT !.stage[i] = "upload",
                                !.meta.size = @ + FileSize(Stringify(bk.data[i]))]
       ELSE /\ bk' = PipeFail(i)
            /\ UNCHANGED <<files, snap>>
    /\ UNCHANGED <<now, db, dirs, metas, rfiles, rmetas, rs, vl, runs, restores>>
    /\ UNCHANGED sched

\* await gcs.uploadFileToGCS(filePath, gcsDestination) and the push.
PipeUpload(i, ok) ==
    /\ bk.pc = "pipes"
    /\ i \in DOMAIN bk.stage
    /\ bk.stage[i] = "upload"
    /\ Outcome(ok)
    /\ IF ok /\ files[bk.id][bk.req[i]] # NoFile
       THEN /\ rfiles' = [rfiles EXCEPT ![bk.id][bk.req[i]] = files[bk.id][bk.req[i]]]
            /\ bk' = PipeOk(i)
       ELSE /\ bk' = PipeFail(i)
            /\ UNCHANGED rfiles
    /\ UNCHANGED <<now, db, dirs, files, metas, rmetas, rs, vl, snap, runs, restores>>
    /\ UNCHANGED sched

\* Promise.all has settled: every pipeline returned its result.
AllSettled == \A i \in DOMAIN bk.stage : bk.stage[i] \in {"ok", "fail"}

\* Status update, then await fs.writeFile(metadataPath, ...).
BackupWriteMetadata(ok) ==
    /\ bk.pc = "pipes"
    /\ AllSettled
    /\ Outcome(ok)
    /\ LET m == UpdateStatus(bk.meta, bk.stage, bk.req)
       IN IF ok /\ dirs[bk.id]
          THEN /\ metas' = [metas EXCEPT ![bk.id] = m]
               /\ bk' = [bk EXCEPT !.pc = "metaUpload", !.meta = m]
          ELSE /\ bk' = Catastrophe("writeMetadata")
               /\ UNCHANGED metas
    /\ UNCHANGED <<now, db, dirs, files, rfiles, rmetas, rs, vl, snap, runs, restores>>
    /\ UNCHANGED sched

\* await gcs.uploadFileToGCS(metadataPath, ...); return metadata.
BackupUploadMetadata(ok) ==
    /\ bk.pc = "metaUpload"
    /\ Outcome(ok)
    /\ IF ok /\ metas[bk.id] # NoMeta
       THEN /\ rmetas' = [rmetas EXCEPT ![bk.id] = metas[bk.id]]
            /\ bk' = [bk EXCEPT !.pc = "done"]
       ELSE /\ bk' = Catastrophe("uploadMetadata")
            /\ UNCHANGED rmetas
    /\ UNCHANGED <<now, db, dirs, files, metas, rfiles, rs, vl, snap, runs, restores>>
    /\ UNCHANGED sched

\* The caller has received the returned metadata.
BackupReturn ==
    /\ bk.pc = "done"
    /\ bk' = BkIdle
    /\ UNCHANGED <<now, db, storage, rs, vl, budgets>>
    /\ UNCHANGED sched

\* -------------------------------------------------------- getBackupDetails
\* The parsed metadata.json of the backup, or null (NoMeta) when reading fails.
GetBackupDetails(b) == metas[b]

\* ---------------------------------------------------------------- listBackups
\* The entry listBackups pushes for the directory b: its parsed metadata.json
\* or, when that cannot be read, basic metadata made from the directory name.
ListEntry(b) ==
    IF metas[b] # NoMeta THEN metas[b]
    ELSE [id |-> b, date |-> b, collections |-> <<>>, size |-> 0,
          status |-> "completed"]

\* listBackups(): one entry per directory of BACKUP_DIR (the order of the
\* returned array, newest first, is not kept).
ListedBackups == {ListEntry(b) : b \in {x \in Ids : dirs[x]}}

\* --------------------------------------------------------------- deleteBackup
\* await fs.rm(backupDirPath, { recursive: true, force: true }); the deletion
\* of the remote objects is not implemented, whatever deleteFromGCS is.  With
\* force, removing a directory that does not exist changes nothing.
DeleteBackup(b, deleteFromGCS, ok) ==
    /\ Idle
    /\ dirs[b]
    /\ Outcome(ok)
    /\ IF ok
       THEN /\ dirs' = [dirs EXCEPT ![b] = FALSE]
            /\ files' = [files EXCEPT ![b] = [c \in Names |-> NoFile]]
            /\ metas' = [metas EXCEPT ![b] = NoMeta]
       ELSE UNCHANGED <<dirs, files, metas>>
    /\ UNCHANGED <<now, db, rfiles, rmetas, bk, rs, vl, snap, runs, restores>>
    /\ UNCHANGED sched

\* ----------------------------------------------------------- restoreFromBackup
RsIdle == [pc |-> "idle", caller |-> "none", id |-> 0, req |-> <<>>,
           del |-> FALSE, val |-> FALSE, meta0 |-> "none", i |-> 0,
           data |-> NoFile, pre |-> {}, touched |-> {}, results |-> <<>>,
           success |-> FALSE, outcome |-> "none", at |-> "none"]

\* Where the metadata of a backup can be found when a restore is requested.
MetaAt(b) == IF metas[b] # NoMeta THEN "local"
             ELSE IF rmetas[b] # NoMeta THEN "remote" ELSE "none"

\* restoreFromBackup(backupId, options) is entered.
RestoreStart(caller, b, req, del, val) ==
    [RsIdle EXCEPT !.pc = "access", !.caller = caller, !.id = b, !.req = req,
                   !.del = del, !.val = val, !.meta0 = MetaAt(b), !.i = 1]

\* The handler or command answers 'Backup <id> not found' and returns.
RestoreNotFound(caller, b, req, del, val) ==
    [RsIdle EXCEPT !.pc = "done", !.caller = caller, !.id = b, !.req = req,
                   !.del = del, !.val = val, !.meta0 = MetaAt(b),
                   !.outcome = "notfound"]

\* Mutant: the handler restores without looking for the metadata first.
RestoreBackupApiUnchecked(b, req, del, val) ==
    /\ Idle
    /\ restores < MaxRestores
    /\ restores' = restores + 1
    /\ rs' = RestoreStart("api", b, req, del, val)
    /\ UNCHANGED <<now, db, storage, bk, vl, snap, runs, faults>>
    /\ UNCHANGED sched

\* POST /api/backup/:id/restore.
RestoreBackupApi(b, req, del, val) ==
    /\ Idle
    /\ IF GetBackupDetails(b) = NoMeta
       THEN /\ rs' = RestoreNotFound("api", b, req, del, val)
            /\ UNCHANGED restores
       ELSE /\ restores < MaxRestores
            /\ restores' = restores + 1
            /\ rs' = RestoreStart("api", b, req, del, val)
    /\ UNCHANGED <<now, db, storage, bk, vl, snap, runs, faults>>
    /\ UNCHANGED sched

\* The command 'restore <backupId>': validateData keeps its default.
RestoreBackupCli(b, req, del) ==
    /\ Idle
    /\ IF GetBackupDetails(b) = NoMeta
       THEN /\ rs' = RestoreNotFound("cli", b, req, del, TRUE)
            /\ UNCHANGED restores
       ELSE /\ restores < MaxRestores
            /\ restores' = restores + 1
            /\ rs' = RestoreStart("cli", b, req, del, TRUE)
    /\ UNCHANGED <<now, db, storage, bk, vl, snap, runs, faults>>
    /\ UNCHANGED sched

\* restoreFromBackup called by any other code of the process.
RestoreDirect(b, req, del, val) ==
    /\ Idle
    /\ restores < MaxRestores
    /\ restores' = restores + 1
    /\ rs' = RestoreStart("direct", b, req, del, val)
    /\ UNCHANGED <<now, db, storage, bk, vl, snap, runs, faults>>
    /\ UNCHANGED sched

\* The outer catch of restoreFromBackup.
RestoreAborted ==
    [rs EXCEPT !.pc = "done", !.outcome = "aborted", !.success = FALSE,
               !.results = <<[collection |-> "all", success |-> FALSE]>>]

\* await fs.access(backupDirPath).
RestoreAccess ==
    /\ rs.pc = "access"
    /\ rs' = [rs EXCEPT !.pc = IF dirs[rs.id] THEN "load" ELSE "mkdir"]
    /\ UNCHANGED <<now, db, storage, bk, vl, budgets>>
    /\ UNCHANGED sched

\* await fs.mkdir(backupDirPath, { recursive: true }).
RestoreMkdir(ok) ==
    /\ rs.pc = "mkdir"
    /\ Outcome(ok)
    /\ IF ok
       THEN /\ dirs' = [dirs EXCEPT ![rs.id] = TRUE]
            /\ rs' = [rs EXCEPT !.pc = "metadata"]
       ELSE /\ rs' = [RestoreAborted EXCEPT !.at = "mkdir"]
            /\ UNCHANGED dirs
    /\ UNCHANGED <<now, db, files, metas, rfiles, rmetas, bk, vl, snap, runs, restores>>
    /\ UNCHANGED sched

\* Mutant: a failed download removes the directory that was just created.
RestoreDownloadMetadataCleans(ok) ==
    /\ rs.pc = "metadata"
    /\ Outcome(ok)
    /\ IF ok /\ rmetas[rs.id] # NoMeta /\ dirs[rs.id]
       THEN /\ metas' = [metas EXCEPT ![rs.id] = rmetas[rs.id]]
            /\ rs' = [rs EXCEPT !.pc = "load"]
            /\ UNCHANGED dirs
       ELSE /\ rs' = [RestoreAborted EXCEPT !.at = "metadata"]
            /\ dirs' = [dirs EXCEPT ![rs.id] = FALSE]
            /\ UNCHANGED metas
    /\ UNCHANGED <<now, db, files, rfiles, rmetas, bk, vl, snap, runs, restores>>
    /\ UNCHANGED sched

\* await gcs.downloadFileFromGCS('backups/<id>/metadata.json', ...).
RestoreDownloadMetadata(ok) ==
    /\ rs.pc = "metadata"
    /\ Outcome(ok)
    /\ IF ok /\ rmetas[rs.id] # NoMeta /\ dirs[rs.id]
       THEN /\ metas' = [metas EXCEPT ![rs.id] = rmetas[rs.id]]
            /\ rs' = [rs EXCEPT !.pc = "load"]
       ELSE /\ rs' = [RestoreAborted EXCEPT !.at = "metadata"]
            /\ UNCHANGED metas
    /\ UNCHANGED <<now, db, dirs, files, rfiles, rmetas, bk, vl, snap, runs, restores>>
    /\ UNCHANGED sched

\* Mutant: the failure of one collection ends the loop.
RestoreFailBreaks ==
    [rs EXCEPT !.pc = "load", !.i = Len(rs.req) + 1,
               !.results = Append(@, [collection |-> rs.req[rs.i], success |-> FALSE])]

\* The inner catch of one collection: a failure result is pushed and the loop
\* goes on with the next collection.
RestoreFail ==
    [rs EXCEPT !.pc = "load", !.i = @ + 1,
               !.results = Append(@, [collection |-> rs.req[rs.i], success |-> FALSE])]

\* The success result of one collection is pushed.
RestoreOk ==
    [rs EXCEPT !.pc = "load", !.i = @ + 1,
               !.results = Append(@, [collection |-> rs.req[rs.i], success |-> TRUE])]

\* Mutant: the parsed content is never validated.
ValidationSkipped(val, content) == FALSE

\* if (validateData && !Array.isArray(data)) throw ...
ValidationFails(val, content) == val /\ ~IsArray(content)

\* The file of the current collection is found or downloaded, read, parsed and
\* validated.
RestoreLoad(ok) ==
    /\ rs.pc = "load"
    /\ rs.i <= Len(rs.req)
    /\ Outcome(ok)
    /\ LET c == rs.req[rs.i]
           hydrate == files[rs.id][c] = NoFile
           content == IF hydrate THEN rfiles[rs.id][c] ELSE files[rs.id][c]
           seen == [rs EXCEPT !.data = content, !.pre = db[c]]
       IN IF ~ok \/ content = NoFile \/ ~dirs[rs.id]
          THEN /\ rs' = [RestoreFail EXCEPT !.data = NoFile, !.pre = db[c]]
               /\ UNCHANGED files
          ELSE /\ files' = [files EXCEPT ![rs.id][c] = content]
               /\ rs' = IF ParseThrows(content) \/ ValidationFails(rs.val, content)
                        THEN [RestoreFail EXCEPT !.data = content, !.pre = db[c]]
                        ELSE [seen EXCEPT !.pc = "delete"]
    /\ UNCHANGED <<now, db, dirs, metas, rfiles, rmetas, bk, vl, snap, runs, restores>>
    /\ UNCHANGED sched

\* Mutant: deleteExisting is ignored, nothing is ever deleted.
RestoreDeleteSkipped(ok) ==
    /\ rs.pc = "delete"
    /\ ok
    /\ rs' = [rs EXCEPT !.pc = "insert"]
    /\ UNCHANGED <<now, db, storage, bk, vl, budgets>>
    /\ UNCHANGED sched

\* if (deleteExisting) await collection.deleteMany({}).
RestoreDelete(ok) ==
    /\ rs.pc = "delete"
    /\ Outcome(ok)
    /\ LET c == rs.req[rs.i]
       IN IF ~rs.del
          THEN /\ ok
               /\ rs' = [rs EXCEPT !.pc = "insert"]
               /\ UNCHANGED db
          ELSE IF ok
          THEN /\ db' = [db EXCEPT ![c] = {}]
               /\ rs' = [rs EXCEPT !.pc = "insert", !.touched = @ \cup {c}]
          ELSE /\ rs' = [RestoreFail EXCEPT !.touched = @ \cup {c}]
               /\ UNCHANGED db
    /\ UNCHANGED <<now, storage, bk, vl, snap, runs, restores>>
    /\ UNCHANGED sched

\* Mutant: a failed insertMany puts the deleted documents back.
RestoreInsertRollsBack(ok, part) ==
    /\ rs.pc = "insert"
    /\ Outcome(ok)
    /\ LET c == rs.req[rs.i]
           docs == rs.data.docs
       IN CASE rs.data.kind = "null" ->
                 /\ ok /\ part = {}
                 /\ rs' = RestoreFail
                 /\ UNCHANGED db
            [] rs.data.kind = "array" /\ docs # {} ->
                 IF ok /\ docs \cap db[c] = {}
                 THEN /\ part = docs
                      /\ db' = [db EXCEPT ![c] = @ \cup docs]
                      /\ rs' = [RestoreOk EXCEPT !.touched = @ \cup {c}]
                 ELSE /\ part \subseteq docs \ db[c]
                      /\ part # docs
                      /\ db' = [db EXCEPT ![c] = rs.pre]
                      /\ rs' = [RestoreFail EXCEPT !.touched = @ \cup {c}]
            [] OTHER ->
                 /\ ok /\ part = {}
                 /\ rs' = RestoreOk
                 /\ UNCHANGED db
    /\ UNCHANGED <<now, storage, bk, vl, snap, runs, restores>>
    /\ UNCHANGED sched

\* if (data.length > 0) await collection.insertMany(data); the success result.
\* A failing insertMany has inserted only the documents in part.
RestoreInsert(ok, part) ==
    /\ rs.pc = "insert"
    /\ Outcome(ok)
    /\ LET c == rs.req[rs.i]
           docs == rs.data.docs
       IN CASE rs.data.kind = "null" ->
                 \* null.length throws a TypeError
                 /\ ok /\ part = {}
                 /\ rs' = RestoreFail
                 /\ UNCHANGED db
            [] rs.data.kind = "array" /\ docs # {} ->
                 IF ok /\ docs \cap db[c] = {}
                 THEN /\ part = docs
                      /\ db' = [db EXCEPT ![c] = @ \cup docs]
                      /\ rs' = [RestoreOk EXCEPT !.touched = @ \cup {c}]
                 ELSE \* a write error or a duplicate _id
                      /\ part \subseteq docs \ db[c]
                      /\ part # docs
                      /\ db' = [db EXCEPT ![c] = @ \cup part]
                      /\ rs' = [RestoreFail EXCEPT !.touched = @ \cup {c}]
            [] OTHER ->
                 \* an empty array, or a value without a length: nothing to insert
                 /\ ok /\ part = {}
                 /\ rs' = RestoreOk
                 /\ UNCHANGED db
    /\ UNCHANGED <<now, storage, bk, vl, snap, runs, restores>>
    /\ UNCHANGED sched

\* const success = results.every(r => r.success); return { success, results }.
RestoreReturn ==
    /\ rs.pc = "load"
    /\ rs.i > Len(rs.req)
    /\ rs' = [rs EXCEPT !.pc = "done", !.outcome = "returned",
                        !.success = \A j \in DOMAIN rs.results : rs.results[j].success]
    /\ UNCHANGED <<now, db, storage, bk, vl, budgets>>
    /\ UNCHANGED sched

\* The caller has received the result of the restore.
RestoreAck ==
    /\ rs.pc = "done"
    /\ rs' = RsIdle
    /\ UNCHANGED <<now, db, storage, bk, vl, budgets>>
    /\ UNCHANGED sched

\* ------------------------------------------------------------- validateBackup
VlIdle == [pc |-> "idle", id |-> 0, valid |-> FALSE, errors |-> <<>>,
           collections |-> <<>>]

\* Mutant: an entry is valid as soon as its file parses.
ValidateEntryParsedOnly(content) ==
    IF content # NoFile /\ ~ParseThrows(content)
    THEN [valid |-> TRUE, recordCount |-> Cardinality(content.docs)]
    ELSE [valid |-> FALSE, recordCount |-> 0]

\* The entry of one collection file: read, parse, Array.isArray.
ValidateEntry(content) ==
    IF content # NoFile /\ ~ParseThrows(content) /\ IsArray(content)
    THEN [valid |-> TRUE, recordCount |-> Cardinality(content.docs)]
    ELSE [valid |-> FALSE, recordCount |-> 0]

\* Mutant: only the collections the metadata lists are validated.
ValidatedNamesListed(b) ==
    {metas[b].collections[j] : j \in DOMAIN metas[b].collections}

\* for (const collectionName of COLLECTIONS): the names that get an entry.
ValidatedNames(b) == Names

\* validateBackup(backupId), from the call to the returned result.
ValidateResult(b) ==
    IF ~dirs[b]
    THEN [pc |-> "done", id |-> b, valid |-> FALSE,
          errors |-> <<"Backup directory not found">>, collections |-> <<>>]
    ELSE LET errors == IF GetBackupDetails(b) = NoMeta
                       THEN <<"Metadata file not found">> ELSE <<>>
             entries == [c \in ValidatedNames(b) |-> ValidateEntry(files[b][c])]
         IN [pc |-> "done", id |-> b,
             valid |-> (\A c \in DOMAIN entries : entries[c].valid) /\ Len(errors) = 0,
             errors |-> errors, collections |-> entries]

\* Mutant: validation removes the snapshot files it finds damaged.
ValidateBackupRepairs(b) ==
    /\ Idle
    /\ vl' = ValidateResult(b)
    /\ files' = [files EXCEPT ![b] =
                    [c \in Names |-> IF @[c].kind \in BadKinds THEN NoFile ELSE @[c]]]
    /\ UNCHANGED <<now, db, dirs, metas, rfiles, rmetas, bk, rs, budgets>>
    /\ UNCHANGED sched

\* validateBackup(backupId) is called and runs to its return statement.
ValidateBackup(b) ==
    /\ Idle
    /\ vl' = ValidateResult(b)
    /\ UNCHANGED <<now, db, storage, bk, rs, budgets>>
    /\ UNCHANGED sched

\* The caller has received the validation result.
ValidateReturn ==
    /\ vl.pc = "done"
    /\ vl' = VlIdle
    /\ UNCHANGED <<now, db, storage, bk, rs, budgets>>
    /\ UNCHANGED sched

\* ------------------------------------------------------------ BackupScheduler
\* Under SchedSpec the scheduler, its timer and the runs it begins are
\* followed.  A run is createBackup, taken here from its call to its returned
\* metadata in one step, then cleanupOldBackups with one step per awaited
\* listing and deletion.  Time is counted in ticks: one tick is the resolution
\* of the backup id, and retention.days is counted in the same unit.  An entry
\* of the backup directory is named by its id, and the date of its metadata
\* is the tick of its id.
Ticks == 1..MaxClock

\* cron expressions: two that cron.validate accepts and one it rejects.
DailySchedule == "0 2 * * *"

MinuteSchedule == "* * * * *"

InvalidSchedule == "every day"

Schedules == {DailySchedule, MinuteSchedule, InvalidSchedule}

\* cron.validate(expression).
CronValidate(s) == s \in {DailySchedule, MinuteSchedule}

\* retention: a positive number of days and of backups to keep.
Retentions == [days : 1..MaxDays, maxBackups : 1..MaxKeep]

\* ScheduledBackupConfig; collections is left undefined, so that createBackup
\* takes its default.
Configs == [enabled : BOOLEAN, schedule : Schedules, retention : Retentions]

\* The configuration of the default instance when the environment sets nothing.
DefaultConfig == [enabled |-> FALSE, schedule |-> DailySchedule,
                  retention |-> [days |-> 7, maxBackups |-> 10]]

ConfigKeys == {"enabled", "schedule", "retention"}

\* Partial<ScheduledBackupConfig>: any subset of the keys with a value each.
Partials ==
    {[k \in ks |-> CASE k = "enabled" -> e
                     [] k = "schedule" -> s
                     [] OTHER -> r] :
        ks \in SUBSET ConfigKeys, e \in BOOLEAN, s \in Schedules, r \in Retentions}

\* { ...this.config, ...config }
Merge(cfg, p) == [k \in DOMAIN cfg |-> IF k \in DOMAIN p THEN p[k] ELSE cfg[k]]

TimerIds == 1..MaxTimers

\* A timer: the ScheduledTask cron.schedule returned.  last is the tick of
\* its creation or of its latest fire: it fires at most once per tick.
NoTimer == [state |-> "unused", schedule |-> "", last |-> 0]

\* The next ScheduledTask object cron.schedule creates.
FreshTimer(tm) == 1 + Cardinality({t \in TimerIds : tm[t].state # "unused"})

NoCall == [op |-> "none", was |-> FALSE, threw |-> FALSE, old |-> 0,
           inflight |-> {}]

\* The runs that have begun and not ended.
InFlight == {f \in DOMAIN fires : fires[f].pc # "done"}

\* Mutant: the expression is handed to cron.schedule without validation.
StartUnvalidated(cfg, tk, tm) ==
    IF ~cfg.enabled \/ tk # 0
    THEN [task |-> tk, timers |-> tm, threw |-> FALSE]
    ELSE LET t == FreshTimer(tm)
         IN [task |-> t, threw |-> FALSE,
             timers |-> [tm EXCEPT ![t] = [state |-> "active",
                                            schedule |-> cfg.schedule,
                                            last |-> clock]]]

\* start(): what it leaves in this.task and among the timers, and whether it
\* throws.
StartResult(cfg, tk, tm) ==
    IF ~cfg.enabled
    THEN [task |-> tk, timers |-> tm, threw |-> FALSE]
    ELSE IF tk # 0
    THEN [task |-> tk, timers |-> tm, threw |-> FALSE]
    ELSE IF ~CronValidate(cfg.schedule)
    THEN [task |-> tk, timers |-> tm, threw |-> TRUE]
    ELSE LET t == FreshTimer(tm)
         IN [task |-> t, threw |-> FALSE,
             timers |-> [tm EXCEPT ![t] = [state |-> "active",
                                            schedule |-> cfg.schedule,
                                            last |-> clock]]]

\* Mutant: this.task is forgotten, the ScheduledTask is not stopped.
StopKeepsTimer(tk, tm) == [task |-> 0, timers |-> tm]

\* stop(): this.task.stop(); this.task = null.
StopResult(tk, tm) ==
    IF tk # 0
    THEN [task |-> 0, timers |-> [tm EXCEPT ![tk].state = "stopped"]]
    ELSE [task |-> tk, timers |-> tm]

\* start() is called.
Start ==
    LET res == StartResult(config, task, timers)
    IN /\ res.task \in 0..MaxTimers
       /\ task' = res.task
       /\ timers' = res.timers
       /\ call' = [op |-> "start", was |-> task # 0, threw |-> res.threw,
                   old |-> task, inflight |-> InFlight]
       /\ calls < MaxCalls
       /\ calls' = calls + 1
       /\ UNCHANGED <<clock, disk, config, fires>>
       /\ UNCHANGED engine

\* stop() is called.
Stop ==
    LET res == StopResult(task, timers)
    IN /\ task' = res.task
       /\ timers' = res.timers
       /\ call' = [op |-> "stop", was |-> task # 0, threw |-> FALSE,
                   old |-> task, inflight |-> InFlight]
       /\ calls < MaxCalls
       /\ calls' = calls + 1
       /\ UNCHANGED <<clock, disk, config, fires>>
       /\ UNCHANGED engine

\* Mutant: the new configuration is stored, the running timer is kept.
UpdateConfigNoRestart(p) ==
    /\ calls < MaxCalls
    /\ calls' = calls + 1
    /\ config' = Merge(config, p)
    /\ call' = [op |-> "update", was |-> task # 0, threw |-> FALSE,
                old |-> task, inflight |-> InFlight]
    /\ UNCHANGED <<clock, disk, task, timers, fires>>
    /\ UNCHANGED engine

\* Mutant: when start() throws, the previous configuration is put back.
UpdateConfigRollsBack(p) ==
    LET cfg == Merge(config, p)
        stopped == StopResult(task, timers)
        res == IF task # 0
               THEN StartResult(cfg, stopped.task, stopped.timers)
               ELSE [task |-> task, timers |-> timers, threw |-> FALSE]
    IN /\ calls < MaxCalls
       /\ res.task \in 0..MaxTimers
       /\ calls' = calls + 1
       /\ config' = IF res.threw THEN config ELSE cfg
       /\ task' = res.task
       /\ timers' = res.timers
       /\ call' = [op |-> "update", was |-> task # 0, threw |-> res.threw,
                   old |-> task, inflight |-> InFlight]
       /\ UNCHANGED <<clock, disk, fires>>
       /\ UNCHANGED engine

\* updateConfig(config): merge, then stop() and start() if it was running.
UpdateConfig(p) ==
    LET cfg == Merge(config, p)
        stopped == StopResult(task, timers)
        res == IF task # 0
               THEN StartResult(cfg, stopped.task, stopped.timers)
               ELSE [task |-> task, timers |-> timers, threw |-> FALSE]
    IN /\ calls < MaxCalls
       /\ res.task \in 0..MaxTimers
       /\ calls' = calls + 1
       /\ config' = cfg
       /\ task' = res.task
       /\ timers' = res.timers
       /\ call' = [op |-> "update", was |-> task # 0, threw |-> res.threw,
                   old |-> task, inflight |-> InFlight]
       /\ UNCHANGED <<clock, disk, fires>>
       /\ UNCHANGED engine

\* The wall clock reaches the next tick.
SchedTick ==
    /\ clock < MaxClock
    /\ clock' = clock + 1
    /\ UNCHANGED <<disk, config, task, timers, fires, call, calls>>
    /\ UNCHANGED engine

\* A run: kind is fire (the callback of the timer) or manual (triggerBackup);
\* id is the backup id createBackup computed when it was called.
NewRun(kind, t) ==
    [kind |-> kind, timer |-> t, pc |-> "backup", id |-> clock,
     status |-> "none", listed |-> {}, seen |-> <<>>, cutoff |-> 0, keep |-> 0,
     sel |-> <<>>, idx |-> 0, removed |-> {}, failed |-> {}]

\* The timer fires: the callback calls createBackup(this.config.collections).
\* Nothing makes it wait for the callback of an earlier fire.
FireBegin(t) ==
    /\ Len(fires) < MaxFires
    /\ timers[t].state = "active"
    /\ timers[t].last < clock
    /\ timers' = [timers EXCEPT ![t].last = clock]
    /\ fires' = Append(fires, NewRun("fire", t))
    /\ UNCHANGED <<clock, disk, config, task, call, calls>>
    /\ UNCHANGED engine

\* triggerBackup() calls createBackup(this.config.collections).
TriggerBackup ==
    /\ Len(fires) < MaxFires
    /\ fires' = Append(fires, NewRun("manual", 0))
    /\ UNCHANGED <<clock, disk, config, task, timers, call, calls>>
    /\ UNCHANGED engine

\* How a createBackup run can end: with its metadata written (completed,
\* which stands for partial as well: the scheduler treats both alike; or
\* failed, when every collection failed), or on its catastrophic path before
\* or after the directory was created.
BackupOutcomes == {"completed", "failed", "mkdirFailed", "metadataFailed"}

\* The status createBackup returns.
Returned(out) == IF out = "completed" THEN out ELSE "failed"

\* The entry <id> of the backup directory after the run has ended: none, dir
\* (a directory without metadata.json) or the status its metadata.json holds.
DiskAfter(entry, out) ==
    CASE out = "mkdirFailed" -> entry
      [] out = "metadataFailed" -> IF entry = "none" THEN "dir" ELSE entry
      [] OTHER -> out

\* createBackup returns its metadata to the run f.
BackupFinish(f, out) ==
    /\ f \in DOMAIN fires
    /\ fires[f].pc = "backup"
    /\ disk' = [disk EXCEPT ![fires[f].id] = DiskAfter(@, out)]
    /\ fires' = [fires EXCEPT
                    ![f].status = Returned(out),
                    ![f].pc = IF fires[f].kind = "fire" THEN "list" ELSE "done"]
    /\ UNCHANGED <<clock, config, task, timers, call, calls>>
    /\ UNCHANGED engine

\* listBackups(): every entry of the backup directory, with the date of its
\* metadata or, without metadata, the date its name parses to.  A failing
\* readdir is logged and the list is empty.
ListBackups(ok) == IF ok THEN {b \in Ticks : disk[b] # "none"} ELSE {}

\* The status of the listed entry b: the one of its metadata or, without
\* metadata, completed.
ListedStatus(b) == IF disk[b] = "dir" THEN "completed" ELSE disk[b]

\* [...backups].sort(oldest first).
RECURSIVE SortedBackups(_)
SortedBackups(S) ==
    IF S = {} THEN <<>>
    ELSE LET b == CHOOSE x \in S : \A y \in S : x <= y
         IN <<b>> \o SortedBackups(S \ {b})

\* Mutant: a backup dated exactly at the cutoff counts as too old.
TooOldInclusive(sorted, cutoff) ==
    SelectSeq(sorted, LAMBDA b : b <= cutoff)

\* sortedBackups.filter(backup => backupDate < cutoffDate)
TooOld(sorted, cutoff) == SelectSeq(sorted, LAMBDA b : b < cutoff)

\* Mutant: only completed backups are counted against maxBackups.
RemainingCompleted(sorted, cutoff) ==
    SelectSeq(sorted, LAMBDA b : b >= cutoff /\ ListedStatus(b) = "completed")

\* sortedBackups.filter(backup => backupDate >= cutoffDate)
RemainingBackups(sorted, cutoff) == SelectSeq(sorted, LAMBDA b : b >= cutoff)

\* Mutant: the newest backups of the window are the ones pushed.
ExcessNewest(remaining, k) ==
    IF Len(remaining) > k
    THEN SubSeq(remaining, k + 1, Len(remaining))
    ELSE <<>>

\* if (remainingBackups.length > maxBackups) remainingBackups.slice(0, excess)
Excess(remaining, k) ==
    IF Len(remaining) > k
    THEN SubSeq(remaining, 1, Len(remaining) - k)
    ELSE <<>>

\* backupsToDelete after the push.
BackupsToDelete(listed, cutoff, k) ==
    LET sorted == SortedBackups(listed)
    IN TooOld(sorted, cutoff) \o Excess(RemainingBackups(sorted, cutoff), k)

\* cleanupOldBackups of the run f: the listing has arrived, the cutoff is
\* taken from the clock and the backups to delete are selected.
PruneList(f, ok) ==
    /\ f \in DOMAIN fires
    /\ fires[f].pc = "list"
    /\ LET listed == ListBackups(ok)
           cutoff == clock - config.retention.days
           k == config.retention.maxBackups
       IN fires' = [fires EXCEPT ![f].pc = "delete", ![f].listed = listed,
                                 ![f].seen = [b \in listed |-> ListedStatus(b)],
                                 ![f].cutoff = cutoff, ![f].keep = k,
                                 ![f].sel = BackupsToDelete(listed, cutoff, k),
                                 ![f].idx = 1]
    /\ UNCHANGED <<clock, disk, config, task, timers, call, calls>>
    /\ UNCHANGED engine

\* How many deleteBackup calls of the scheduler have failed.
DeleteFaults == Cardinality(UNION {fires[g].failed : g \in DOMAIN fires})

\* Mutant: the first deletion that fails ends the loop.
PruneDeleteAborts(f, ok) ==
    /\ f \in DOMAIN fires
    /\ fires[f].pc = "delete"
    /\ fires[f].idx <= Len(fires[f].sel)
    /\ ok \/ DeleteFaults < MaxDeleteFaults
    /\ LET b == fires[f].sel[fires[f].idx]
       IN IF ok
          THEN /\ disk' = [disk EXCEPT ![b] = "none"]
               /\ fires' = [fires EXCEPT ![f].idx = @ + 1,
                                         ![f].removed = @ \cup {b}]
          ELSE /\ fires' = [fires EXCEPT ![f].idx = Len(fires[f].sel) + 1,
                                         ![f].failed = @ \cup {b}]
               /\ UNCHANGED disk
    /\ UNCHANGED <<clock, config, task, timers, call, calls>>
    /\ UNCHANGED engine

\* await backupService.deleteBackup(backup.id, true) inside its try: a failure
\* is logged and the loop goes on.
PruneDelete(f, ok) ==
    /\ f \in DOMAIN fires
    /\ fires[f].pc = "delete"
    /\ fires[f].idx <= Len(fires[f].sel)
    /\ ok \/ DeleteFaults < MaxDeleteFaults
    /\ LET b == fires[f].sel[fires[f].idx]
       IN IF ok
          THEN /\ disk' = [disk EXCEPT ![b] = "none"]
               /\ fires' = [fires EXCEPT ![f].idx = @ + 1,
                                         ![f].removed = @ \cup {b}]
          ELSE /\ fires' = [fires EXCEPT ![f].idx = @ + 1,
                                         ![f].failed = @ \cup {b}]
               /\ UNCHANGED disk
    /\ UNCHANGED <<clock, config, task, timers, call, calls>>
    /\ UNCHANGED engine

\* Mutant: a run that met a failure stops the scheduler when it ends.
FireEndStopsOnFailure(f) ==
    /\ f \in DOMAIN fires
    /\ fires[f].pc = "delete"
    /\ fires[f].idx > Len(fires[f].sel)
    /\ fires' = [fires EXCEPT ![f].pc = "done"]
    /\ LET res == IF fires[f].status = "failed" \/ fires[f].failed # {}
                  THEN StopResult(task, timers)
                  ELSE [task |-> task, timers |-> timers]
       IN task' = res.task /\ timers' = res.timers
    /\ UNCHANGED <<clock, disk, config, call, calls>>
    /\ UNCHANGED engine

\* The callback of the fire returns: cleanupOldBackups has ended.
FireEnd(f) ==
    /\ f \in DOMAIN fires
    /\ fires[f].pc = "delete"
    /\ fires[f].idx > Len(fires[f].sel)
    /\ fires' = [fires EXCEPT ![f].pc = "done"]
    /\ UNCHANGED <<clock, disk, config, task, timers, call, calls>>
    /\ UNCHANGED engine

\* The backup engine before its first request.
InitEngine ==
    /\ now = 1
    /\ db = [c \in Names |-> {}]
    /\ dirs = [b \in Ids |-> FALSE]
    /\ files = [b \in Ids |-> [c \in Names |-> NoFile]]
    /\ metas = [b \in Ids |-> NoMeta]
    /\ rfiles = [b \in Ids |-> [c \in Names |-> NoFile]]
    /\ rmetas = [b \in Ids |-> NoMeta]
    /\ bk = BkIdle
    /\ rs = RsIdle
    /\ vl = VlIdle
    /\ snap = [b \in Ids |-> [c \in Names |-> {}]]
    /\ runs = 0
    /\ restores = 0
    /\ faults = 0

\* The scheduler as constructed, never started.
SchedulerAtRest(cfg) ==
    /\ config = cfg
    /\ task = 0
    /\ timers = [t \in TimerIds |-> NoTimer]
    /\ fires = <<>>
    /\ call = NoCall
    /\ calls = 0

Init ==
    /\ InitEngine
    /\ clock = 1
    /\ disk = [b \in Ticks |-> "none"]
    /\ SchedulerAtRest(DefaultConfig)

\* A scheduler constructed with any configuration, over a backup directory
\* that holds the backups of earlier ticks.
SchedInit ==
    /\ InitEngine
    /\ clock = Past + 1
    /\ disk \in {d \in [Ticks -> {"none", "completed"}] :
                    \A b \in Ticks : b > Past => d[b] = "none"}
    /\ \E cfg \in Configs : SchedulerAtRest(cfg)

\* ------------------------------------------------------------- specification
Next ==
    \/ Tick
    \/ \E c \in Populated, d \in NativeDocs : StoreInsert(c, d)
    \/ \E c \in Names : StoreEmpty(c)
    \/ \E b \in Ids, c \in Names, k \in BadKinds : CorruptFile(b, c, k)
    \/ \E req \in ReqLists : CreateBackupCall(req)
    \/ \E ok \in BOOLEAN : BackupMkdir(ok)
    \/ \E i \in 1..Len(COLLECTIONS), ok \in BOOLEAN : PipeFind(i, ok)
    \/ \E i \in 1..Len(COLLECTIONS), ok \in BOOLEAN : PipeWrite(i, ok)
    \/ \E i \in 1..Len(COLLECTIONS), ok \in BOOLEAN : PipeUpload(i, ok)
    \/ \E ok \in BOOLEAN : BackupWriteMetadata(ok)
    \/ \E ok \in BOOLEAN : BackupUploadMetadata(ok)
    \/ BackupReturn
    \/ \E b \in Ids, g \in BOOLEAN, ok \in BOOLEAN : DeleteBackup(b, g, ok)
    \/ \E b \in Ids, req \in ReqLists, del \in BOOLEAN, val \in BOOLEAN :
          RestoreBackupApi(b, req, del, val)
    \/ \E b \in Ids, req \in ReqLists, del \in BOOLEAN : RestoreBackupCli(b, req, del)
    \/ \E b \in Ids, req \in ReqLists, del \in BOOLEAN, val \in BOOLEAN :
          RestoreDirect(b, req, del, val)
    \/ RestoreAccess
    \/ \E ok \in BOOLEAN : RestoreMkdir(ok)
    \/ \E ok \in BOOLEAN : RestoreDownloadMetadata(ok)
    \/ \E ok \in BOOLEAN : RestoreLoad(ok)
    \/ \E ok \in BOOLEAN : RestoreDelete(ok)
    \/ \E ok \in BOOLEAN, part \in SUBSET Docs : RestoreInsert(ok, part)
    \/ RestoreReturn
    \/ RestoreAck
    \/ \E b \in Ids : ValidateBackup(b)
    \/ ValidateReturn

Spec == Init /\ [][Next]_vars

SchedNext ==
    \/ SchedTick
    \/ Start
    \/ Stop
    \/ \E p \in Partials : UpdateConfig(p)
    \/ \E t \in TimerIds : FireBegin(t)
    \/ TriggerBackup
    \/ \E f \in 1..MaxFires, out \in BackupOutcomes : BackupFinish(f, out)
    \/ \E f \in 1..MaxFires, ok \in BOOLEAN : PruneList(f, ok)
    \/ \E f \in 1..MaxFires, ok \in BOOLEAN : PruneDelete(f, ok)
    \/ \E f \in 1..MaxFires : FireEnd(f)

SchedSpec == SchedInit /\ [][SchedNext]_vars

\* ------------------------------------------------- requests that run together
\* createBackup is called whatever restore is in progress: each request of
\* the process runs as its own chain of awaits.
CreateBackupRacing(req) ==
    /\ bk.pc = "idle"
    /\ runs < MaxRuns + 1
    /\ runs' = runs + 1
    /\ bk' = [pc |-> "mkdir", id |-> now, req |-> req,
              stage |-> [i \in 1..Len(req) |-> "find"],
              data |-> [i \in 1..Len(req) |-> {}],
              meta |-> NewMetadata(now), cata |-> "none"]
    /\ UNCHANGED <<now, db, storage, rs, vl, snap, restores, faults>>
    /\ UNCHANGED sched

\* restoreFromBackup is called whatever createBackup run is in progress.
RestoreRacing(b, req, del, val) ==
    /\ rs.pc = "idle"
    /\ restores < MaxRestores
    /\ restores' = restores + 1
    /\ rs' = RestoreStart("direct", b, req, del, val)
    /\ UNCHANGED <<now, db, storage, bk, vl, snap, runs, faults>>
    /\ UNCHANGED sched

\* The metadata of a completed backup of the list req whose files hold size.
CompletedMetadata(t, req, size) ==
    [NewMetadata(t) EXCEPT !.collections = req, !.size = size]

\* One second after createBackup(['Cab']) completed, with the id 1, on a Cab
\* collection that held the documents ds; Cab now holds the documents pre.
RaceInit ==
    /\ now = 2
    /\ \E ds \in SUBSET NativeDocs, pre \in SUBSET NativeDocs :
          LET cab == COLLECTIONS[1]
              present == [c \in Names |-> IF c = cab THEN Stringify(ds) ELSE NoFile]
              meta == CompletedMetadata(1, <<cab>>, FileSize(Stringify(ds)))
          IN /\ db = [c \in Names |-> IF c = cab THEN pre ELSE {}]
             /\ dirs = [b \in Ids |-> b = 1]
             /\ files = [b \in Ids |-> IF b = 1 THEN present ELSE [c \in Names |-> NoFile]]
             /\ rfiles = files
             /\ metas = [b \in Ids |-> IF b = 1 THEN meta ELSE NoMeta]
             /\ rmetas = metas
             /\ snap = [b \in Ids |-> [c \in Names |-> IF b = 1 /\ c = cab THEN ds ELSE {}]]
    /\ bk = BkIdle
    /\ rs = RsIdle
    /\ vl = VlIdle
    /\ runs = 1
    /\ restores = 0
    /\ faults = 0
    /\ clock = 1
    /\ disk = [b \in Ticks |-> "none"]
    /\ SchedulerAtRest(DefaultConfig)

RaceNext ==
    \/ \E req \in ReqLists : CreateBackupRacing(req)
    \/ \E ok \in BOOLEAN : BackupMkdir(ok)
    \/ \E i \in 1..Len(COLLECTIONS), ok \in BOOLEAN : PipeFind(i, ok)
    \/ \E i \in 1..Len(COLLECTIONS), ok \in BOOLEAN : PipeWrite(i, ok)
    \/ \E i \in 1..Len(COLLECTIONS), ok \in BOOLEAN : PipeUpload(i, ok)
    \/ \E ok \in BOOLEAN : BackupWriteMetadata(ok)
    \/ \E ok \in BOOLEAN : BackupUploadMetadata(ok)
    \/ BackupReturn
    \/ \E b \in Ids, req \in ReqLists, del \in BOOLEAN, val \in BOOLEAN :
          RestoreRacing(b, req, del, val)
    \/ RestoreAccess
    \/ \E ok \in BOOLEAN : RestoreMkdir(ok)
    \/ \E ok \in BOOLEAN : RestoreDownloadMetadata(ok)
    \/ \E ok \in BOOLEAN : RestoreLoad(ok)
    \/ \E ok \in BOOLEAN : RestoreDelete(ok)
    \/ \E ok \in BOOLEAN, part \in SUBSET Docs : RestoreInsert(ok, part)
    \/ RestoreReturn
    \/ RestoreAck

RaceSpec == RaceInit /\ [][RaceNext]_vars

\* ------------------------------------------------------------------- claims
\* The run of createBackup has returned its metadata.
BackupDone == bk.pc = "done"

\* How often a name occurs in a list.
Occurrences(list, c) == Cardinality({j \in DOMAIN list : list[j] = c})

\* How many pipelines of the name c ended in stage st.
Ended(c, st) == Cardinality({j \in DOMAIN bk.req : bk.req[j] = c /\ bk.stage[j] = st})

\* C1 as stated: for every requested list, the empty one included, the
\* returned metadata has status completed if and only if errors is empty and
\* collections has as many names as were requested.
C1_CompletedIff ==
    BackupDone =>
        (bk.meta.status = "completed"
            <=> (bk.meta.errors = <<>> /\ Len(bk.meta.collections) = Len(bk.req)))

\* C1 (amended): for every non-empty requested list the returned metadata has
\* status completed if and only if errors is empty and collections has as
\* many names as were requested; a run over the empty list returns failed.
C1_CompletedIffNonEmpty ==
    BackupDone =>
        IF bk.req = <<>>
        THEN bk.meta.status = "failed"
        ELSE bk.meta.status = "completed"
                <=> (bk.meta.errors = <<>> /\ Len(bk.meta.collections) = Len(bk.req))

\* C1 witness: a run over several collections returned completed.
C1_Witness ==
    /\ BackupDone
    /\ Len(bk.req) >= 2
    /\ bk.meta.status = "completed"
    /\ \E c \in Names : files[bk.id][c].docs # {}

\* C2: the returned metadata has status failed if and only if collections is
\* empty (the claim as stated, catastrophic path included).
C2_FailedIff ==
    BackupDone => (bk.meta.status = "failed" <=> Len(bk.meta.collections) = 0)

\* C3: the failure of one collection stops no other collection: the run
\* returns only when every requested pipeline has finished, unless the
\* directory could not be created; without a setup failure, collections
\* holds exactly the requested collections that succeeded, errors one entry per
\* failed one, and status is partial iff some but not all of them failed.
C3_Bulkhead ==
    BackupDone =>
        /\ bk.cata # "mkdir" => AllSettled
        /\ bk.cata = "none" =>
              /\ \A c \in Names :
                    /\ Occurrences(bk.meta.collections, c) = Ended(c, "ok")
                    /\ Occurrences(bk.meta.errors, c) = Ended(c, "fail")
              /\ Len(bk.meta.collections) + Len(bk.meta.errors) = Len(bk.req)
              /\ bk.meta.status = "partial"
                    <=> (0 < FailedCount(bk.stage) /\ FailedCount(bk.stage) < Len(bk.req))

\* C3 witness: a returned run in which one collection failed and another one,
\* still unfinished at that time or not, succeeded.
C3_Witness ==
    /\ BackupDone
    /\ bk.cata = "none"
    /\ bk.meta.status = "partial"
    /\ \E j, k \in DOMAIN bk.stage : j < k /\ bk.stage[j] = "fail" /\ bk.stage[k] = "ok"

\* C4: a run ends on the catastrophic path only with status failed and the
\* causing error appended last; every other run has finished all its
\* collections and written and uploaded the metadata it returns.
C4_Catastrophic ==
    BackupDone =>
        /\ bk.cata # "none" =>
              /\ bk.meta.status = "failed"
              /\ bk.meta.errors # <<>>
              /\ bk.meta.errors[Len(bk.meta.errors)] = SetupError
        /\ bk.cata = "none" =>
              /\ AllSettled
              /\ metas[bk.id] = bk.meta
              /\ rmetas[bk.id] = bk.meta
              /\ \A j \in DOMAIN bk.meta.errors : bk.meta.errors[j] # SetupError

\* C4 witness: the metadata could not be persisted after a collection succeeded.
C4_Witness ==
    /\ BackupDone
    /\ bk.cata \in {"writeMetadata", "uploadMetadata"}
    /\ bk.meta.collections # <<>>

\* The restore has returned to its caller.
RestoreDone == rs.pc = "done"

\* The result of the collection the restore loop finished last.
LastResult == rs.results[Len(rs.results)]

\* The restore loop is between two collections or behind the last one.
BetweenCollections ==
    /\ rs.pc \in {"load", "done"}
    /\ rs.outcome # "aborted"
    /\ rs.results # <<>>

\* C5: backing up [C], emptying C and restoring [C] with deleteExisting leaves
\* C with exactly the documents it held when it was backed up (the claim as
\* stated).
C5_RoundTrip ==
    (/\ RestoreDone
     /\ rs.outcome = "returned"
     /\ rs.success
     /\ rs.del
     /\ Len(rs.req) = 1
     /\ metas[rs.id].status = "completed"
     /\ metas[rs.id].collections = rs.req
     /\ rs.pre = {}
     /\ rs.data = Stringify(snap[rs.id][rs.req[1]]))
    => db[rs.req[1]] = snap[rs.id][rs.req[1]]

\* C6 (amended): a restore requested through the API handler or the CLI
\* command for an id without local metadata ends not-found and calls neither
\* deleteMany nor insertMany.
C6_HandlerNotFound ==
    (rs.caller \in {"api", "cli"} /\ rs.meta0 # "local")
    => (rs.pc = "done" /\ rs.outcome = "notfound" /\ rs.touched = {})

\* C6 witness: the command refuses an id whose directory exists without metadata
\* while the store holds documents.
C6_Witness ==
    /\ RestoreDone
    /\ rs.caller = "cli"
    /\ rs.outcome = "notfound"
    /\ dirs[rs.id]
    /\ \E c \in Names : db[c] # {} /\ files[rs.id][c] # NoFile

\* C6 as stated: whoever requests the restore, restoreFromBackup itself
\* included, no metadata for the id means no delete and no insert.
C6_NoMetadataNoWrite ==
    rs.meta0 = "none" => rs.touched = {}

\* C7: a returned restore has one result per requested collection, in order,
\* whatever failed on the way, and success is true iff each requested
\* collection has a success result.
C7_RestoreIsolation ==
    (RestoreDone /\ rs.outcome # "notfound") =>
        /\ rs.outcome = "returned" =>
              /\ Len(rs.results) = Len(rs.req)
              /\ \A j \in DOMAIN rs.req : rs.results[j].collection = rs.req[j]
        /\ rs.success <=>
              /\ Len(rs.results) = Len(rs.req)
              /\ \A j \in DOMAIN rs.req :
                    rs.results[j] = [collection |-> rs.req[j], success |-> TRUE]

\* C7 witness: a collection failed and a later one was restored.
C7_Witness ==
    /\ RestoreDone
    /\ rs.outcome = "returned"
    /\ \E j, k \in DOMAIN rs.results :
          j < k /\ ~rs.results[j].success /\ rs.results[k].success

\* C8: after a collection was restored with deleteExisting it holds exactly
\* the documents of the snapshot; without deleteExisting every document it
\* held before is still there, whether its restore succeeded or not.
C8_FullReplace ==
    /\ BetweenCollections =>
          /\ (rs.del /\ LastResult.success)
                => db[LastResult.collection] = rs.data.docs
          /\ ~rs.del => rs.pre \subseteq db[LastResult.collection]
    /\ (rs.pc \in {"delete", "insert"} /\ ~rs.del) => rs.pre \subseteq db[rs.req[rs.i]]

\* C8 witness: documents that are not in the snapshot were in the collection
\* and a restore with deleteExisting succeeded.
C8_Witness ==
    /\ BetweenCollections
    /\ rs.del
    /\ LastResult.success
    /\ rs.pre \ rs.data.docs # {}
    /\ rs.data.docs # {}

\* C9: with validateData, a snapshot that parses to a non-array makes its
\* collection fail with the collection left as it was, and the restore still
\* returns one result per requested collection.
C9_ValidationIsolated ==
    (BetweenCollections /\ rs.val /\ rs.data.kind \in {"object", "null"}) =>
        /\ ~LastResult.success
        /\ db[LastResult.collection] = rs.pre
        /\ rs.pc = "done" => Len(rs.results) = Len(rs.req)

\* C9 witness: the first requested collection has a non-array snapshot and
\* keeps its documents, the second one is restored.
C9_Witness ==
    /\ RestoreDone
    /\ rs.outcome = "returned"
    /\ rs.val
    /\ rs.del
    /\ Len(rs.results) >= 2
    /\ files[rs.id][rs.req[1]].kind \in {"object", "null"}
    /\ db[rs.req[1]] # {}
    /\ ~rs.results[1].success
    /\ rs.results[2].success

\* C10: validateBackup returns valid iff it reports no top-level error and
\* has a valid entry for every known collection; without the directory or the
\* metadata file it returns valid = false.
C10_ValidIff ==
    vl.pc = "done" =>
        /\ vl.valid <=>
              /\ vl.errors = <<>>
              /\ \A c \in Names :
                    c \in DOMAIN vl.collections /\ vl.collections[c].valid
        /\ (~dirs[vl.id] \/ metas[vl.id] = NoMeta) => ~vl.valid
        /\ \A c \in DOMAIN vl.collections :
              vl.collections[c].valid <=> files[vl.id][c].kind = "array"

\* C10 witness: a backup is reported valid.
C10_Witness ==
    /\ vl.pc = "done"
    /\ vl.valid
    /\ \E c \in Names : files[vl.id][c].docs # {}

\* C11: when exactly one snapshot file of a backup is damaged (unparsable or
\* not an array) and the files of all other known collections are intact,
\* validateBackup reports that collection invalid, every other one valid, and
\* valid = false.
C11_OneCorruptFile ==
    \A c \in Names :
        (/\ vl.pc = "done"
         /\ dirs[vl.id]
         /\ files[vl.id][c].kind \in BadKinds
         /\ \A d \in Names \ {c} : files[vl.id][d].kind = "array")
        => /\ ~vl.collections[c].valid
           /\ \A d \in Names \ {c} : vl.collections[d].valid
           /\ ~vl.valid

\* C11 witness: a backup with metadata whose only flaw is one snapshot file
\* that parses to something else than an array.
C11_Witness ==
    /\ vl.pc = "done"
    /\ metas[vl.id] # NoMeta
    /\ vl.errors = <<>>
    /\ \E c \in Names :
          /\ files[vl.id][c].kind \in {"object", "null"}
          /\ ~vl.collections[c].valid
          /\ \A d \in Names \ {c} : vl.collections[d].valid

Pruned(f) == fires[f].kind = "fire" /\ fires[f].pc = "done"

\* The listed backups dated at or after the cutoff of the run f.
Window(f) == {b \in fires[f].listed : b >= fires[f].cutoff}

\* The listed backups dated before the cutoff of the run f.
Older(f) == {b \in fires[f].listed : b < fires[f].cutoff}

\* The k most recent backups of S.
Newest(S, k) == {b \in S : Cardinality({a \in S : a > b}) < k}

\* The backups the run f selected for deletion.
Selected(f) == {fires[f].sel[j] : j \in DOMAIN fires[f].sel}

\* The listed backups the prune of the run f has not removed.
Retained(f) == fires[f].listed \ fires[f].removed

\* C13 as stated: when more than maxBackups listed backups are dated at or
\* after the cutoff, the prune leaves exactly the maxBackups most recent of
\* them and has deleted every other listed backup.
C13_CountBound ==
    \A f \in DOMAIN fires :
        (Pruned(f) /\ Cardinality(Window(f)) > fires[f].keep)
        => Retained(f) = Newest(Window(f), fires[f].keep)

\* C13 (amended): in that case the prune leaves the maxBackups most recent
\* backups of the window and, besides them, only the backups whose deletion
\* failed; it leaves exactly the maxBackups most recent when no deletion fails.
C13_CountBoundUnlessFailed ==
    \A f \in DOMAIN fires :
        (Pruned(f) /\ Cardinality(Window(f)) > fires[f].keep)
        => /\ Retained(f) = Newest(Window(f), fires[f].keep) \cup fires[f].failed
           /\ fires[f].failed \cap Newest(Window(f), fires[f].keep) = {}
           /\ Cardinality(Newest(Window(f), fires[f].keep)) = fires[f].keep

\* C13 witness: a prune over a too old backup and a window larger than
\* maxBackups, every deletion of which succeeded.
C13_Witness ==
    \E f \in DOMAIN fires :
        /\ Pruned(f)
        /\ Cardinality(Window(f)) > fires[f].keep
        /\ Older(f) # {}
        /\ fires[f].failed = {}
        /\ fires[f].removed \cap Window(f) # {}
        /\ Retained(f) # {}

\* C14 as stated: when the window holds at most maxBackups backups, the
\* prune has deleted exactly the listed backups dated before the cutoff.
C14_DeletesExactlyOlder ==
    \A f \in DOMAIN fires :
        (Pruned(f) /\ Cardinality(Window(f)) <= fires[f].keep)
        => fires[f].removed = Older(f)

\* C14 (amended): the prune selects every listed backup dated before the
\* cutoff, whatever maxBackups is, and calls deleteBackup for selected
\* backups only; when the window holds at most maxBackups backups it selects
\* exactly the backups dated before the cutoff and removes no backup of the
\* window; when it ends it has called deleteBackup once for each selected
\* backup and removed the ones whose deletion did not fail.
C14_AgeBound ==
    \A f \in DOMAIN fires :
        fires[f].pc \in {"delete", "done"} =>
            /\ Older(f) \subseteq Selected(f)
            /\ fires[f].removed \cup fires[f].failed \subseteq Selected(f)
            /\ Cardinality(Window(f)) <= fires[f].keep =>
                  /\ Selected(f) = Older(f)
                  /\ fires[f].removed \cap Window(f) = {}
            /\ Len(fires[f].sel) = Cardinality(Selected(f))
            /\ fires[f].removed \cap fires[f].failed = {}
            /\ fires[f].pc = "done" =>
                  fires[f].removed \cup fires[f].failed = Selected(f)

\* C14 witness: two backups dated before the cutoff were deleted and the
\* window, within maxBackups, was kept.
C14_Witness ==
    \E f \in DOMAIN fires :
        /\ Pruned(f)
        /\ Window(f) # {}
        /\ Cardinality(Window(f)) <= fires[f].keep
        /\ Cardinality(Older(f)) >= 2
        /\ fires[f].removed = Older(f)
        /\ \A b \in Window(f) : disk[b] # "none"

\* ------------------------------------------------------------------ scheduler
\* The timers that can still fire.
ActiveTimers == {t \in TimerIds : timers[t].state = "active"}

\* The scheduler is Running.
Running == task # 0

\* C15: after start() on a Stopped scheduler the scheduler is Running iff the
\* configuration is enabled and its expression valid, its timer then uses the
\* configured schedule; start() throws iff the configuration is enabled and
\* the expression invalid; with a disabled configuration it does neither.
C15_Start ==
    (call.op = "start" /\ ~call.was) =>
        /\ Running <=> (config.enabled /\ CronValidate(config.schedule))
        /\ call.threw <=> (config.enabled /\ ~CronValidate(config.schedule))
        /\ Running => /\ ActiveTimers = {task}
                      /\ timers[task].schedule = config.schedule
        /\ ~Running => ActiveTimers = {}

\* C15 witness: a Stopped scheduler was started and its timer has fired.
C15_Witness ==
    /\ call.op = "start"
    /\ ~call.was
    /\ Running
    /\ \E f \in DOMAIN fires : fires[f].kind = "fire" /\ fires[f].timer = task

\* C16: no step of a run, whether its createBackup failed or a deletion of
\* its prune failed, changes this.task, the timers' states or the configuration.
C16_FireContained ==
    [][\A f \in 1..MaxFires :
          (\/ \E out \in BackupOutcomes : BackupFinish(f, out)
           \/ \E ok \in BOOLEAN : PruneList(f, ok)
           \/ \E ok \in BOOLEAN : PruneDelete(f, ok)
           \/ FireEnd(f))
          => /\ UNCHANGED <<task, config>>
             /\ \A t \in TimerIds : timers'[t].state = timers[t].state]_vars

\* C16 witness: a fire whose createBackup failed and whose prune met a failing
\* deletion has ended, and the same timer, still active, has fired again at a
\* later tick.
C16_Witness ==
    \E f, g \in DOMAIN fires :
        /\ fires[f].kind = "fire"
        /\ fires[f].pc = "done"
        /\ fires[f].status = "failed"
        /\ fires[f].failed # {}
        /\ f < g
        /\ fires[g].kind = "fire"
        /\ fires[g].timer = fires[f].timer
        /\ fires[g].id > fires[f].id
        /\ timers[fires[f].timer].state = "active"

\* C17: stop() leaves the scheduler Stopped without an active timer and
\* touches no run, the backup directory or the configuration; on a Stopped
\* scheduler it changes nothing; a fire begins only from the timer of a
\* Running scheduler.
C17_Stop ==
    [][/\ Stop => /\ ~Running'
                  /\ ActiveTimers' = {}
                  /\ UNCHANGED <<fires, disk, config, clock>>
                  /\ ~Running => UNCHANGED <<task, timers>>
       /\ \A t \in TimerIds : FireBegin(t) => task = t]_vars

\* C17 witness: a fire that was in flight when stop() was called has since
\* pruned a backup and ended.
C17_Witness ==
    /\ call.op = "stop"
    /\ call.was
    /\ ~Running
    /\ \E f \in call.inflight :
          /\ fires[f].kind = "fire"
          /\ fires[f].pc = "done"
          /\ fires[f].removed # {}

\* C18: updateConfig stores the given values over the stored configuration
\* and keeps the other keys; on a Running scheduler with an enabled, valid
\* merged configuration it ends Running with one active timer, a new one that
\* uses the merged schedule, the old one stopped; on a Stopped scheduler it
\* ends Stopped.
C18_UpdateConfig ==
    [][\A p \in Partials :
          UpdateConfig(p) =>
              /\ \A k \in ConfigKeys :
                    config'[k] = IF k \in DOMAIN p THEN p[k] ELSE config[k]
              /\ (Running /\ config'.enabled /\ CronValidate(config'.schedule)) =>
                    /\ Running'
                    /\ task' # task
                    /\ ActiveTimers' = {task'}
                    /\ timers'[task'].schedule = config'.schedule
                    /\ timers'[task].state = "stopped"
              /\ ~Running => (~Running' /\ ActiveTimers' = {})]_vars

\* C18 witness: a Running scheduler was given another schedule and its new
\* timer has fired.
C18_Witness ==
    /\ call.op = "update"
    /\ call.was
    /\ Running
    /\ timers[call.old].schedule # config.schedule
    /\ timers[call.old].state = "stopped"
    /\ \E f \in DOMAIN fires : fires[f].kind = "fire" /\ fires[f].timer = task

\* C19 as stated: no two fires of the scheduler are in progress at the same
\* time.
C19_NoOverlap ==
    \A f, g \in DOMAIN fires :
        (f # g /\ fires[f].kind = "fire" /\ fires[g].kind = "fire")
        => (fires[f].pc = "done" \/ fires[g].pc = "done")

\* C20 as stated: no two createBackup runs have the same id.
C20_UniqueIds ==
    \A f, g \in DOMAIN fires : f # g => fires[f].id # fires[g].id

\* ------------------------------------------------- deletion, listing, restore
\* C21 as stated: deleteBackup(id, true) removes the local directory, after
\* which listBackups does not return id and getBackupDetails(id) is null, and
\* it removes the remote objects of the backup as well.
C21_DeleteRemovesRemote ==
    [][\A b \in Ids :
          DeleteBackup(b, TRUE, TRUE) =>
              /\ ~dirs'[b]
              /\ \A e \in ListedBackups' : e.id # b
              /\ GetBackupDetails(b)' = NoMeta
              /\ rmetas'[b] = NoMeta
              /\ \A c \in Names : rfiles'[b][c] = NoFile]_vars

\* C22 as stated: with no request in progress, every entry listBackups
\* returns belongs to an id whose metadata file exists and has the status and
\* the collections recorded in that file.
C22_ListedFromMetadata ==
    Idle =>
        \A e \in ListedBackups :
            /\ metas[e.id] # NoMeta
            /\ e.status = metas[e.id].status
            /\ e.collections = metas[e.id].collections

\* C24: nothing makes a createBackup run wait for a restore or a restore for a
\* createBackup run: a pipeline that is about to read its collection can do
\* so whatever the restore is doing, and a restore that is about to delete or
\* to insert can do so whatever the run is doing; the snapshot file of a
\* pipeline that succeeded holds what its find returned, whatever the restore
\* did to the collection before or after, and its collection is listed as
\* backed up.
C24_NothingSerializes ==
    /\ \A i \in 1..Len(COLLECTIONS) :
          (bk.pc = "pipes" /\ i \in DOMAIN bk.stage /\ bk.stage[i] = "find")
          => ENABLED PipeFind(i, TRUE)
    /\ rs.pc = "delete" => ENABLED RestoreDelete(TRUE)
    /\ rs.pc = "insert" => ENABLED (\E part \in SUBSET Docs : RestoreInsert(TRUE, part))
    /\ BackupDone =>
          \A i \in DOMAIN bk.stage :
              bk.stage[i] = "ok" =>
                  /\ files[bk.id][bk.req[i]] = Stringify(bk.data[i])
                  /\ snap[bk.id][bk.req[i]] = bk.data[i]
                  /\ \E j \in DOMAIN bk.meta.collections :
                        bk.meta.collections[j] = bk.req[i]

\* C24 witness: a createBackup run and a restore with deleteExisting of the
\* same collection have both returned, the run completed and the restore
\* successful; the collection held documents before the restore and holds
\* documents after it, and the snapshot the run recorded for it is empty.
C24_Witness ==
    /\ BackupDone
    /\ bk.meta.status = "completed"
    /\ RestoreDone
    /\ rs.outcome = "returned"
    /\ rs.success
    /\ rs.del
    /\ \E c \in Names :
          /\ rs.req = <<c>>
          /\ bk.meta.collections = <<c>>
          /\ rs.pre # {}
          /\ db[c] # {}
          /\ files[bk.id][c] = ArrayFile({})
          /\ files[bk.id][c] # Stringify(rs.pre)
          /\ files[bk.id][c] # Stringify(db[c])

\* C25 as stated: whenever a metadata file was written for the run, its
\* status, collections and errors are those of the metadata createBackup
\* returns, so getBackupDetails and listBackups report the returned status.
C25_ReturnedIsPersisted ==
    (BackupDone /\ metas[bk.id] # NoMeta) =>
        /\ metas[bk.id].status = bk.meta.status
        /\ metas[bk.id].collections = bk.meta.collections
        /\ metas[bk.id].errors = bk.meta.errors
        /\ GetBackupDetails(bk.id).status = bk.meta.status
        /\ \A e \in ListedBackups : e.id = bk.id => e.status = bk.meta.status

\* A backup that is still exactly what a createBackup run that returned
\* completed left behind: its metadata is stored locally and remotely with
\* status completed, no file was damaged and no restore has added files.
UntouchedCompleted(b) ==
    /\ dirs[b]
    /\ metas[b] # NoMeta
    /\ metas[b].status = "completed"
    /\ rmetas[b] = metas[b]
    /\ CorruptCount = 0
    /\ restores = 0

\* C26 as stated: a backup that createBackup returned as completed is
\* reported valid by a validateBackup that follows with no change in between,
\* whatever list of collections was requested.
C26_CompletedIsValid ==
    (vl.pc = "done" /\ UntouchedCompleted(vl.id)) => vl.valid

\* C28: a restoreFromBackup call for an id without a local directory whose
\* metadata cannot be downloaded returns success = false with the single
\* result for 'all', has written nothing to the primary store, and leaves the
\* directory it created, empty; listBackups then reports the id as a backup
\* with status completed and no collections.
C28_FailedRestoreLeavesDir ==
    (RestoreDone /\ rs.at = "metadata") =>
        /\ rs.outcome = "aborted"
        /\ ~rs.success
        /\ rs.results = <<[collection |-> "all", success |-> FALSE]>>
        /\ rs.touched = {}
        /\ dirs[rs.id]
        /\ metas[rs.id] = NoMeta
        /\ \A c \in Names : files[rs.id][c] = NoFile
        /\ \E e \in ListedBackups :
              /\ e.id = rs.id
              /\ e.status = "completed"
              /\ e.collections = <<>>

\* C28 witness: such a restore, started by a direct call with no metadata
\* anywhere, has returned while the primary store holds documents.
C28_Witness ==
    /\ RestoreDone
    /\ rs.at = "metadata"
    /\ rs.meta0 = "none"
    /\ rs.caller = "direct"
    /\ dirs[rs.id]
    /\ \E c \in Names : db[c] # {}

\* C30: with deleteExisting, when the insert of a non-empty snapshot fails
\* after the delete, the collection holds only the part of the snapshot that
\* was inserted and none of its other pre-restore documents, its result is a
\* failure, the loop goes on with the next collection, no step of the restore
\* changes that collection again, and the restore returns success = false.
C30_NotAtomic ==
    [][/\ \A part \in SUBSET Docs :
             (/\ RestoreInsert(FALSE, part)
              /\ rs.del
              /\ rs.data.kind = "array"
              /\ rs.data.docs # {}) =>
                 LET c == rs.req[rs.i]
                 IN /\ c \in rs.touched
                    /\ db[c] = {}
                    /\ db'[c] = part
                    /\ part # rs.data.docs
                    /\ db'[c] \cap (rs.pre \ rs.data.docs) = {}
                    /\ rs'.results = Append(rs.results, [collection |-> c, success |-> FALSE])
                    /\ rs'.pc = "load"
                    /\ rs'.i = rs.i + 1
       /\ (rs.pc # "idle" /\ rs.outcome = "none" /\ rs' # rs) =>
             \A j \in DOMAIN rs.results : db'[rs.req[j]] = db[rs.req[j]]
       /\ (RestoreReturn /\ \E j \in DOMAIN rs.results : ~rs.results[j].success)
             => ~rs'.success]_vars

\* C30 witness: the insert of a collection that held documents has just
\* failed after its documents were deleted, and the collection is empty.
C30_Witness ==
    /\ BetweenCollections
    /\ rs.del
    /\ ~LastResult.success
    /\ LastResult.collection \in rs.touched
    /\ rs.pre # {}
    /\ rs.data.kind = "array"
    /\ rs.data.docs # {}
    /\ db[LastResult.collection] = {}

\* --------------------------------------------------- prune and configuration
\* C23: every deleteBackup call of a prune is for a selected backup that was
\* not attempted before; whether it fails or not the loop goes on with the
\* next selected backup; a call that does not fail has deleted its backup;
\* and the prune ends only when every selected backup was attempted.
C23_PruneGoesOn ==
    [][/\ \A f \in 1..MaxFires, ok \in BOOLEAN :
             PruneDelete(f, ok) =>
                 LET r == fires[f]
                     b == r.sel[r.idx]
                 IN /\ b \notin r.removed \cup r.failed
                    /\ fires'[f].pc = "delete"
                    /\ fires'[f].sel = r.sel
                    /\ fires'[f].idx = r.idx + 1
                    /\ ok => /\ disk'[b] = "none"
                             /\ fires'[f].removed = r.removed \cup {b}
                             /\ fires'[f].failed = r.failed
                    /\ ~ok => /\ fires'[f].failed = r.failed \cup {b}
                              /\ fires'[f].removed = r.removed
       /\ \A f \in 1..MaxFires :
             FireEnd(f) =>
                 /\ fires[f].idx = Len(fires[f].sel) + 1
                 /\ fires[f].removed \cup fires[f].failed = Selected(f)
                 /\ fires[f].removed \cap fires[f].failed = {}]_vars

\* C23 witness: a prune has ended in which the deletion of one selected
\* backup failed and a backup selected after it was deleted.
C23_Witness ==
    \E f \in DOMAIN fires :
        /\ Pruned(f)
        /\ \E i, j \in DOMAIN fires[f].sel :
              /\ i < j
              /\ fires[f].sel[i] \in fires[f].failed
              /\ fires[f].sel[j] \in fires[f].removed
              /\ disk[fires[f].sel[j]] = "none"

\* The last k fires up to the run f.
LastFires(f, k) ==
    {g \in 1..f : /\ fires[g].kind = "fire"
                  /\ Cardinality({h \in (g + 1)..f : fires[h].kind = "fire"}) < k}

\* C27 as stated: when the last maxBackups fires each returned a failed
\* backup, the prune of the last of them has deleted every completed backup
\* it listed that is older than the backups of those fires.
C27_FailedFiresEvict ==
    \A f \in DOMAIN fires :
        (/\ Pruned(f)
         /\ Cardinality(LastFires(f, fires[f].keep)) = fires[f].keep
         /\ \A g \in LastFires(f, fires[f].keep) : fires[g].status = "failed")
        => \A b \in fires[f].listed :
              (/\ fires[f].seen[b] = "completed"
               /\ \A g \in LastFires(f, fires[f].keep) : b < fires[g].id)
              => b \in fires[f].removed

\* C27: the selection of a prune does not look at the status of a backup:
\* when the maxBackups most recent listed backups are all failed ones, every
\* other listed backup, the completed ones included, was selected, and was
\* deleted unless its deletion failed.
C27_StatusBlind ==
    \A f \in DOMAIN fires :
        LET r == fires[f]
            N == Newest(r.listed, r.keep)
        IN (/\ Pruned(f)
            /\ Cardinality(N) = r.keep
            /\ \A b \in N : r.seen[b] = "failed")
           => /\ r.listed \ N \subseteq Selected(f)
              /\ \A b \in r.listed \ N :
                    r.seen[b] = "completed" => b \in r.removed \cup r.failed
              /\ r.listed \ N \subseteq r.removed \cup r.failed

\* C27 witness: the backup of a fire failed, its metadata was written, and the
\* prune of that fire kept it and deleted a completed backup that was not
\* older than the cutoff.
C27_Witness ==
    \E f \in DOMAIN fires :
        /\ Pruned(f)
        /\ fires[f].status = "failed"
        /\ fires[f].id \in fires[f].listed
        /\ fires[f].seen[fires[f].id] = "failed"
        /\ fires[f].id \notin Selected(f)
        /\ \E b \in fires[f].removed :
              /\ b >= fires[f].cutoff
              /\ fires[f].seen[b] = "completed"

====
